---- MODULE Spec2Model ----
(***************************************************************************)
(* Model of the sales ETL pipeline of src/etl/etl_sales.py:                *)
(* transform_data (one chunk), load_data and the run_etl loop.             *)
(*                                                                         *)
(* A DataFrame is a sequence of rows.  A row is a record that carries its  *)
(* index label (idx) and one cell per column.  A cell is <<"na">> (a       *)
(* missing value), <<"str", s>> (text that the numeric / date parsers      *)
(* cannot parse) or <<"val", v>> (a value).  Dates are day numbers         *)
(* relative to 1900-01-01.  The column region stands for the five          *)
(* categorical columns and unit_price for the five numeric columns other   *)
(* than units_sold: the source treats the columns of each group in one     *)
(* loop with the same body.                                                *)
(***************************************************************************)
EXTENDS Integers, Sequences, FiniteSets, TLC

VARIABLES
    \* ---- one call of transform_data, and a second call on its result
    tpc,                \* "in", "out", "again"
    tin,                \* the DataFrame passed to transform_data
    filled,             \* df after step 3 (missing values and order ids filled)
    deduped,            \* df after step 4 (drop_duplicates)
    duplicates_removed, \* initial_rows - len(df) after step 4
    out,                \* the DataFrame transform_data returns
    out2,               \* transform_data(out)
    removed2,           \* duplicates_removed of the second call
    \* ---- run_etl
    pc,                 \* "Idle", "Running", "Completed", "Failed"
    file,               \* the data rows of the CSV file
    size,               \* chunk size
    count_ok,           \* the open() of the row pre-count succeeds
    open_ok,            \* pd.read_csv can open the file
    total_rows,         \* cell: <<"na">> (None) or <<"val", n>>
    next_row,           \* rows already handed out by the chunk iterator
    chunk_no,           \* i of enumerate(chunks, start=1)
    processed,          \* cumulative rows loaded
    store,              \* rows persisted in sales.records
    loaded,             \* per chunk, the value load_data returned
    chunk_events,       \* the etl_chunk_complete events emitted
    complete_event,     \* the etl_pipeline_complete event: cell
    error               \* the exception that left run_etl: "none", ...

tvars == <<tpc, tin, filled, deduped, duplicates_removed, out, out2, removed2>>
rvars == <<pc, file, size, count_ok, open_ok, total_rows, next_row, chunk_no,
           processed, store, loaded, chunk_events, complete_event, error>>
vars == <<tvars, rvars>>

-----------------------------------------------------------------------------
(* Cells *)

NA == <<"na">>
Val(v) == <<"val", v>>
Str(s) == <<"str", s>>

isna(c) == c[1] = "na"

DefaultNumeric == 0
DefaultDate == 0
DefaultCategory == "Unknown"

\* pd.to_datetime(..., errors="coerce").dt.date: unparseable text becomes NaT
to_datetime(c) == IF c[1] = "val" THEN c ELSE NA

\* pd.to_numeric(..., errors="coerce"): unparseable text becomes NaN
to_numeric(c) == IF c[1] = "val" THEN c ELSE NA

\* mutant: the column is assigned the default instead of being filled
fillna_overwrite(c, d) == Val(d)

fillna(c, d) == IF isna(c) THEN Val(d) ELSE c

Min(a, b) == IF a <= b THEN a ELSE b

-----------------------------------------------------------------------------
(* transform_data, step by step *)

\* step 2: data type conversion
ConvertTypes(df) ==
    [i \in DOMAIN df |->
        [df[i] EXCEPT !.order_date = to_datetime(@),
                      !.ship_date = to_datetime(@),
                      !.units_sold = to_numeric(@),
                      !.unit_price = to_numeric(@)]]

\* step 3: categorical, numeric and date defaults
FillDefaults(df) ==
    [i \in DOMAIN df |->
        [df[i] EXCEPT !.region = fillna(@, DefaultCategory),
                      !.units_sold = fillna(@, DefaultNumeric),
                      !.unit_price = fillna(@, DefaultNumeric),
                      !.order_date = fillna(@, DefaultDate),
                      !.ship_date = fillna(@, DefaultDate)]]

missing_order_ids(df) == {i \in DOMAIN df : isna(df[i].order_id)}

\* df["order_id"].max(), which skips missing values
SeriesMax(df) ==
    LET present == {df[i].order_id[2] : i \in DOMAIN df \ missing_order_ids(df)}
    IN CHOOSE m \in present : \A n \in present : n <= m

max_existing_id(df) ==
    IF missing_order_ids(df) = DOMAIN df THEN 0 ELSE SeriesMax(df)

\* mutant: the cap at -1 is forgotten
start_id_uncapped(df) == max_existing_id(df) - 1

start_id(df) == Min(max_existing_id(df) - 1, -1)

\* step 3, order ids: the k-th missing row (k from 0, in row order) receives
\* range(start_id, start_id - n, -1)[k] = start_id - k
FillOrderIds(df) ==
    IF missing_order_ids(df) = {} THEN df
    ELSE [i \in DOMAIN df |->
            IF isna(df[i].order_id)
            THEN [df[i] EXCEPT !.order_id =
                    Val(start_id(df)
                        - Cardinality({j \in missing_order_ids(df) : j < i}))]
            ELSE df[i]]

\* step 4: drop_duplicates(subset=["order_id"], keep="first"), one pass over
\* the rows with the set of keys seen so far
RECURSIVE DropFrom(_, _, _)
DropFrom(df, i, seen) ==
    IF i > Len(df) THEN <<>>
    ELSE IF df[i].order_id \in seen
         THEN DropFrom(df, i + 1, seen)
         ELSE <<df[i]>> \o DropFrom(df, i + 1, seen \cup {df[i].order_id})

\* mutant: keep="last"
RECURSIVE Reverse(_)
Reverse(s) == IF s = <<>> THEN <<>> ELSE Append(Reverse(Tail(s)), Head(s))

drop_duplicates_keep_last(df) == Reverse(DropFrom(Reverse(df), 1, {}))

drop_duplicates(df) == DropFrom(df, 1, {})

\* step 5: dropna(subset=["order_id"])
dropna(df) == SelectSeq(df, LAMBDA r : ~isna(r.order_id))

\* step 5: df[df["units_sold"] >= 0]
NonNegativeUnits(r) == r.units_sold[1] = "val" /\ r.units_sold[2] >= 0

\* mutant: the filtered frame is not assigned back
FilterUnits_discarded(df) == df

FilterUnits(df) == SelectSeq(df, NonNegativeUnits)

\* step 5: ship_date before order_date is set to order_date
invalid_dates(r) ==
    /\ r.ship_date[1] = "val"
    /\ r.order_date[1] = "val"
    /\ r.ship_date[2] < r.order_date[2]

FixDates(df) ==
    [i \in DOMAIN df |->
        IF invalid_dates(df[i])
        THEN [df[i] EXCEPT !.ship_date = df[i].order_date]
        ELSE df[i]]

Step3(df) == FillOrderIds(FillDefaults(ConvertTypes(df)))

Step5(df) == FixDates(FilterUnits(dropna(df)))

\* mutant: duplicates are dropped before the missing order ids are filled
transform_data_dedup_first(df) ==
    LET f == FillOrderIds(drop_duplicates(FillDefaults(ConvertTypes(df))))
    IN [filled |-> f,
        deduped |-> f,
        duplicates_removed |-> Len(df) - Len(f),
        out |-> Step5(f)]

\* mutant: the units filter runs before the duplicates are dropped
transform_data_filter_first(df) ==
    LET f == Step3(df)
        d == drop_duplicates(FilterUnits(f))
    IN [filled |-> f,
        deduped |-> d,
        duplicates_removed |-> Len(f) - Len(d),
        out |-> FixDates(dropna(d))]

transform_data(df) ==
    LET f == Step3(df)
        d == drop_duplicates(f)
    IN [filled |-> f,
        deduped |-> d,
        duplicates_removed |-> Len(f) - Len(d),
        out |-> Step5(d)]

-----------------------------------------------------------------------------
(* Input batches *)

MaxRows == 3
MaxFieldRows == 1

RealIds == {-2, -1, 0, 1, 5}

Row(i, id, reg, od, sd, us, up) ==
    [idx |-> i, order_id |-> id, region |-> reg, order_date |-> od,
     ship_date |-> sd, units_sold |-> us, unit_price |-> up]

\* rows that differ in order_id and units_sold
IdRows(i) ==
    {Row(i, id, Val("Asia"), Val(1), Val(2), us, Val(3)) :
        id \in {NA} \cup {Val(n) : n \in RealIds},
        us \in {Val(-5), Val(10)}}

\* rows that differ in the categorical, numeric and date columns
FieldRows(i) ==
    {Row(i, Val(i), reg, od, sd, us, up) :
        reg \in {NA, Val("Asia")},
        od \in {NA, Str("abc"), Val(-1), Val(1)},
        sd \in {NA, Str("abc"), Val(-1), Val(2)},
        us \in {NA, Str("abc"), Val(-5), Val(10)},
        up \in {NA, Val(3)}}

\* the frames of at most n rows whose i-th row is drawn from Rows[i]
RECURSIVE Frames(_, _)
Frames(Rows, n) ==
    IF n = 0 THEN {<<>>}
    ELSE LET shorter == Frames(Rows, n - 1)
         IN shorter \cup {Append(df, r) : df \in {s \in shorter : Len(s) = n - 1},
                                          r \in Rows[n]}

Batches ==
    Frames([i \in 1..MaxRows |-> IdRows(i)], MaxRows)
        \cup Frames([i \in 1..MaxFieldRows |-> FieldRows(i)], MaxFieldRows)

-----------------------------------------------------------------------------
(* The transformer on its own *)

RunIdle ==
    /\ pc = "Idle"
    /\ file = <<>>
    /\ size = 1
    /\ count_ok = TRUE
    /\ open_ok = TRUE
    /\ total_rows = NA
    /\ next_row = 0
    /\ chunk_no = 0
    /\ processed = 0
    /\ store = <<>>
    /\ loaded = <<>>
    /\ chunk_events = <<>>
    /\ complete_event = NA
    /\ error = "none"

TransformIdle ==
    /\ tpc = "in"
    /\ filled = <<>>
    /\ deduped = <<>>
    /\ duplicates_removed = 0
    /\ out = <<>>
    /\ out2 = <<>>
    /\ removed2 = 0

InitT ==
    /\ tin \in Batches
    /\ TransformIdle
    /\ RunIdle

Transform ==
    /\ tpc = "in"
    /\ LET t == transform_data(tin)
       IN /\ filled' = t.filled
          /\ deduped' = t.deduped
          /\ duplicates_removed' = t.duplicates_removed
          /\ out' = t.out
    /\ tpc' = "out"
    /\ UNCHANGED <<tin, out2, removed2, rvars>>

TransformAgain ==
    /\ tpc = "out"
    /\ LET t == transform_data(out)
       IN /\ out2' = t.out
          /\ removed2' = t.duplicates_removed
    /\ tpc' = "again"
    /\ UNCHANGED <<tin, filled, deduped, duplicates_removed, out, rvars>>

NextT == Transform \/ TransformAgain

SpecT == InitT /\ [][NextT]_vars

-----------------------------------------------------------------------------
(* Properties of transform_data *)

Transformed == tpc # "in"

\* the input row an output row comes from: idx is the row's position in tin
InputOf(r) == tin[r.idx]

\* C1: every row transform_data returns has a non-null order_id,
\* units_sold >= 0 and ship_date >= order_date.
C1_OutputRowsValid ==
    Transformed =>
        \A k \in DOMAIN out :
            /\ out[k].order_id[1] = "val"
            /\ out[k].units_sold[1] = "val" /\ out[k].units_sold[2] >= 0
            /\ out[k].ship_date[1] = "val" /\ out[k].order_date[1] = "val"
            /\ out[k].ship_date[2] >= out[k].order_date[2]

\* a returned row whose order_id was missing, next to a dropped row
C1_Witness ==
    /\ tpc = "out"
    /\ \E k \in DOMAIN out : isna(InputOf(out[k]).order_id)
    /\ \E i \in DOMAIN tin : tin[i].units_sold = Val(-5)
    /\ Len(out) < Len(tin)

\* a returned row whose ship_date was before its order_date
C1_WitnessDates ==
    /\ tpc = "out"
    /\ \E k \in DOMAIN out :
          /\ InputOf(out[k]).ship_date = Val(-1)
          /\ InputOf(out[k]).order_date = Val(1)

ScenarioA ==
    /\ Len(tin) = 2
    /\ tin[1].order_id = Val(1) /\ tin[1].units_sold = Val(-5)
    /\ tin[2].order_id = Val(1) /\ tin[2].units_sold = Val(10)

\* C2 as stated: for the rows (order_id 1, units_sold -5), (order_id 1,
\* units_sold 10), transform_data returns exactly one row, with order_id 1
\* and units_sold 10.
C2_Original ==
    (Transformed /\ ScenarioA) =>
        /\ Len(out) = 1
        /\ out[1].order_id = Val(1)
        /\ out[1].units_sold = Val(10)

\* C2 as amended: for that batch transform_data returns no row; the
\* deduplication keeps the first row (units_sold -5) and removes the second,
\* and the units filter then drops the first.
C2_ScenarioAYieldsNothing ==
    (Transformed /\ ScenarioA) =>
        /\ deduped = <<filled[1]>>
        /\ deduped[1].units_sold = Val(-5)
        /\ duplicates_removed = 1
        /\ out = <<>>

C2_Witness == tpc = "out" /\ ScenarioA

\* the rows of tin with a missing order_id, and the largest present order_id
\* (0 when every order_id is missing)
MissingRows == {i \in DOMAIN tin : tin[i].order_id = NA}

PresentIds == {tin[i].order_id[2] : i \in DOMAIN tin \ MissingRows}

IsMaxPresent(m) ==
    IF PresentIds = {} THEN m = 0
    ELSE m \in PresentIds /\ \A n \in PresentIds : n <= m

FirstMissing(i) == i \in MissingRows /\ \A j \in MissingRows : i <= j

NextMissing(i, j) ==
    /\ i \in MissingRows /\ j \in MissingRows /\ i < j
    /\ \A k \in MissingRows : ~(i < k /\ k < j)

Decrementing ==
    \A i, j \in DOMAIN tin :
        NextMissing(i, j) =>
            filled[j].order_id = Val(filled[i].order_id[2] - 1)

\* C3 as stated: the first synthesized id is strictly less than
\* min(-1, max_existing_id - 1), each further one is 1 less than the previous
\* one in row order, and with maximum existing id 5 a single missing row
\* receives -2.
C3_Original ==
    Transformed =>
        \A m \in RealIds \cup {0} : \A i \in DOMAIN tin :
            (IsMaxPresent(m) /\ FirstMissing(i)) =>
                /\ filled[i].order_id[1] = "val"
                /\ filled[i].order_id[2] < Min(-1, m - 1)
                /\ Decrementing
                /\ (m = 5 /\ MissingRows = {i}) => filled[i].order_id = Val(-2)

\* C3 as amended: the first synthesized id equals min(-1, max_existing_id - 1)
\* (max_existing_id being 0 when every order_id is missing), each further one
\* is 1 less than the previous one in row order, and with maximum existing
\* id 5 a single missing row receives -1.
C3_FirstIdIsStart ==
    Transformed =>
        \A m \in RealIds \cup {0} : \A i \in DOMAIN tin :
            (IsMaxPresent(m) /\ FirstMissing(i)) =>
                /\ filled[i].order_id = Val(Min(-1, m - 1))
                /\ Decrementing
                /\ (m = 5 /\ MissingRows = {i}) => filled[i].order_id = Val(-1)

\* two missing rows after a row with order_id 5
C3_Witness ==
    /\ tpc = "out"
    /\ IsMaxPresent(5)
    /\ Cardinality(MissingRows) = 2
    /\ \E i \in DOMAIN tin : FirstMissing(i) /\ filled[i].order_id = Val(-1)

\* C4: every synthesized order_id differs from every other synthesized id and
\* from every real order_id of the batch, so the deduplication removes no row
\* because of a synthesized id.
C4_SynthesizedIdsDoNotCollide ==
    Transformed =>
        /\ \A i \in MissingRows : \A j \in DOMAIN tin :
              i # j => filled[i].order_id # filled[j].order_id
        /\ \A j \in DOMAIN filled :
              (\A k \in DOMAIN deduped : deduped[k].idx # j) =>
                  \A i \in MissingRows : filled[i].order_id # filled[j].order_id

\* C5: the deduplication removes exactly the rows whose order_id equals that
\* of an earlier row: survivors have pairwise distinct order_ids, each is the
\* first occurrence of its order_id, they keep the input order, and
\* duplicates_removed is the number of rows removed.
FirstOccurrences ==
    {i \in DOMAIN filled :
        \A j \in 1..(i - 1) : filled[j].order_id # filled[i].order_id}

C5_DedupKeepsFirstOccurrences ==
    Transformed =>
        /\ Len(deduped) = Cardinality(FirstOccurrences)
        /\ \A k \in DOMAIN deduped :
              \E i \in FirstOccurrences :
                  /\ deduped[k] = filled[i]
                  /\ Cardinality({j \in FirstOccurrences : j < i}) = k - 1
        /\ \A k, l \in DOMAIN deduped :
              k # l => deduped[k].order_id # deduped[l].order_id
        /\ duplicates_removed = Cardinality(DOMAIN filled \ FirstOccurrences)

\* a duplicate removed from between two kept rows
C5_Witness ==
    /\ tpc = "out"
    /\ Len(filled) = 3
    /\ duplicates_removed = 1
    /\ filled[2].order_id = filled[1].order_id
    /\ Len(deduped) = 2

\* a default is written to a field exactly when the field is null after type
\* conversion: the input value is null or, for a numeric or date field, text
\* that does not parse
Parsed(c) == c[1] = "val"

KeepsOrDefault(cellIn, cellFilled, d) ==
    IF cellIn = NA THEN cellFilled = Val(d) ELSE cellFilled = cellIn

ParsedOrDefault(cellIn, cellFilled, d) ==
    IF Parsed(cellIn) THEN cellFilled = cellIn ELSE cellFilled = Val(d)

DefaultsExactlyOnNull ==
    /\ Len(filled) = Len(tin)
    /\ \A i \in DOMAIN tin :
          /\ KeepsOrDefault(tin[i].region, filled[i].region, DefaultCategory)
          /\ ParsedOrDefault(tin[i].units_sold, filled[i].units_sold, DefaultNumeric)
          /\ ParsedOrDefault(tin[i].unit_price, filled[i].unit_price, DefaultNumeric)
          /\ ParsedOrDefault(tin[i].order_date, filled[i].order_date, DefaultDate)
          /\ ParsedOrDefault(tin[i].ship_date, filled[i].ship_date, DefaultDate)

\* C6 as stated: a default is written to a field exactly when the input value
\* of the field is null, and a field whose input value is present keeps its
\* input value in the output.  (Null is read as null after type conversion
\* and present as parsed, the reading most favourable to the claim.)
C6_Original ==
    Transformed =>
        /\ DefaultsExactlyOnNull
        /\ \A k \in DOMAIN out :
              LET r == InputOf(out[k])
              IN /\ r.region # NA => out[k].region = r.region
                 /\ Parsed(r.units_sold) => out[k].units_sold = r.units_sold
                 /\ Parsed(r.unit_price) => out[k].unit_price = r.unit_price
                 /\ Parsed(r.order_date) => out[k].order_date = r.order_date
                 /\ Parsed(r.ship_date) => out[k].ship_date = r.ship_date

\* C6 as amended: a default is written to a field exactly when the field is
\* null after type conversion, and in the output every field keeps the value
\* it has after the defaults, so a present value that parses is kept, except
\* ship_date, which is replaced by order_date when it is earlier.
C6_DefaultsExactlyOnNullAfterCoercion ==
    Transformed =>
        /\ DefaultsExactlyOnNull
        /\ \A k \in DOMAIN out :
              LET f == filled[out[k].idx]
              IN /\ out[k].region = f.region
                 /\ out[k].units_sold = f.units_sold
                 /\ out[k].unit_price = f.unit_price
                 /\ out[k].order_date = f.order_date
                 /\ out[k].ship_date =
                       IF f.ship_date[2] < f.order_date[2]
                       THEN f.order_date ELSE f.ship_date

\* a returned row with a null region, an unparseable order_date, a present
\* unit_price and a present ship_date before the default order_date
C6_Witness ==
    /\ tpc = "out"
    /\ \E k \in DOMAIN out :
          LET r == InputOf(out[k])
          IN /\ r.region = NA
             /\ r.order_date[1] = "str"
             /\ r.unit_price = Val(3)
             /\ r.ship_date = Val(-1)
             /\ out[k].ship_date = Val(DefaultDate)

\* C7: transform_data applied to its own result returns the same rows, in the
\* same order, with the same field values; the second application removes no
\* row and repairs nothing.
C7_Idempotent ==
    tpc = "again" =>
        /\ out2 = out
        /\ removed2 = 0
        /\ \A k \in DOMAIN out :
              /\ out[k].order_id # NA
              /\ fillna(to_numeric(out[k].units_sold), DefaultNumeric) = out[k].units_sold
              /\ ~invalid_dates(out[k])

\* a second application to a result from which the first application removed
\* a duplicate, dropped a row and filled an order_id
C7_Witness ==
    /\ tpc = "again"
    /\ duplicates_removed = 1
    /\ Len(out) = 1
    /\ Len(tin) = 3
    /\ isna(InputOf(out[1]).order_id)

-----------------------------------------------------------------------------
(* run_etl *)

MaxFileRows == 3
MaxChunkSize == 2

FileRows(i) ==
    {Row(i, id, Val("Asia"), Val(1), Val(2), us, Val(3)) :
        id \in {NA, Val(1), Val(2)},
        us \in {Val(-5), Val(10)}}

Files == Frames([i \in 1..MaxFileRows |-> FileRows(i)], MaxFileRows)

Init ==
    /\ tin = <<>>
    /\ TransformIdle
    /\ pc = "Idle"
    /\ file \in Files
    /\ size \in 1..MaxChunkSize
    /\ count_ok \in BOOLEAN
    /\ open_ok \in BOOLEAN
    /\ total_rows = NA
    /\ next_row = 0
    /\ chunk_no = 0
    /\ processed = 0
    /\ store = <<>>
    /\ loaded = <<>>
    /\ chunk_events = <<>>
    /\ complete_event = NA
    /\ error = "none"

\* sum(1 for _ in open(path)) - 1 inside try / except: None when it raises
CountRows == IF count_ok THEN Val(Len(file)) ELSE NA

\* mutant: the pre-count's open() is not guarded, its error leaves run_etl
SourceUnavailable_unguarded_count == ~open_ok \/ ~count_ok

\* pd.read_csv raises when the path cannot be opened
SourceUnavailable == ~open_ok

\* the chunk iterator: a file without data rows yields one empty first chunk
HasNextChunk == next_row < Len(file) \/ (Len(file) = 0 /\ chunk_no = 0)

NextChunk == SubSeq(file, next_row + 1, Min(next_row + size, Len(file)))

\* round(x, 2) of x = num / den * 100, in hundredths
\* (no tie occurs for den < 32)
RoundedPercent(num, den) == (2 * num * 10000 + den) \div (2 * den)

\* pct = (processed / total_rows * 100) if total_rows else None
Pct(done, total) ==
    IF total = NA \/ total = Val(0) THEN NA ELSE Val(<<done, total[2]>>)

\* progress_percent = round(pct, 2) if pct else None
ProgressPercent(done, total) ==
    LET pct == Pct(done, total)
    IN IF pct = NA \/ pct[2][1] = 0
       THEN NA
       ELSE Val(RoundedPercent(pct[2][1], pct[2][2]))

\* lines 171-188 when read_csv opens the file
Start ==
    /\ pc = "Idle"
    /\ ~SourceUnavailable
    /\ total_rows' = CountRows
    /\ pc' = "Running"
    /\ UNCHANGED <<file, size, count_ok, open_ok, next_row, chunk_no, processed,
                   store, loaded, chunk_events, complete_event, error, tvars>>

\* lines 171-188 when read_csv raises
StartFails ==
    /\ pc = "Idle"
    /\ SourceUnavailable
    /\ total_rows' = CountRows
    /\ pc' = "Failed"
    /\ error' = "SourceUnavailable"
    /\ UNCHANGED <<file, size, count_ok, open_ok, next_row, chunk_no, processed,
                   store, loaded, chunk_events, complete_event, tvars>>

\* mutant: the counter is advanced by the rows to load before to_sql runs
ProcessedAtFailure_counted_early(df) == processed + Len(df)

\* the counter when to_sql raises: processed += inserted is not reached
ProcessedAtFailure(df) == processed

\* one iteration of the loop, load_data returning
ProcessChunk ==
    /\ pc = "Running"
    /\ HasNextChunk
    /\ LET chunk == NextChunk
           transformed_chunk == transform_data(chunk).out
           inserted == Len(transformed_chunk)
       IN /\ store' = store \o transformed_chunk
          /\ processed' = processed + inserted
          /\ loaded' = Append(loaded, inserted)
          /\ chunk_events' = Append(chunk_events,
                [chunk_number |-> chunk_no + 1,
                 extracted_rows |-> Len(chunk),
                 transformed_rows |-> Len(transformed_chunk),
                 loaded_rows |-> inserted,
                 total_processed |-> processed + inserted,
                 progress_percent |->
                     ProgressPercent(processed + inserted, total_rows)])
          /\ next_row' = next_row + Len(chunk)
    /\ chunk_no' = chunk_no + 1
    /\ UNCHANGED <<pc, file, size, count_ok, open_ok, total_rows,
                   complete_event, error, tvars>>

\* one iteration of the loop, df.to_sql raising: the insert of the chunk is
\* one transaction, and a chunk without rows never reaches to_sql
ProcessChunkFails ==
    /\ pc = "Running"
    /\ HasNextChunk
    /\ LET chunk == NextChunk
           transformed_chunk == transform_data(chunk).out
       IN /\ transformed_chunk # <<>>
          /\ processed' = ProcessedAtFailure(transformed_chunk)
          /\ next_row' = next_row + Len(chunk)
    /\ chunk_no' = chunk_no + 1
    /\ pc' = "Failed"
    /\ error' = "StoreWriteError"
    /\ UNCHANGED <<file, size, count_ok, open_ok, total_rows, store, loaded,
                   chunk_events, complete_event, tvars>>

\* the iterator is exhausted: line 211
Complete ==
    /\ pc = "Running"
    /\ ~HasNextChunk
    /\ complete_event' = Val(processed)
    /\ pc' = "Completed"
    /\ UNCHANGED <<file, size, count_ok, open_ok, total_rows, next_row, chunk_no,
                   processed, store, loaded, chunk_events, error, tvars>>

\* what a caller of run_etl is told: whether an exception left it, and the
\* total of the etl_pipeline_complete event (run_etl returns None)
RunSummary == [failed |-> error # "none", totalRowsLoaded |-> complete_event]

Next == Start \/ StartFails \/ ProcessChunk \/ ProcessChunkFails \/ Complete

Spec == Init /\ [][Next]_vars

-----------------------------------------------------------------------------
(* Properties of run_etl *)

RECURSIVE SumSeq(_)
SumSeq(s) == IF s = <<>> THEN 0 ELSE Head(s) + SumSeq(Tail(s))

\* the rows the j-th chunk of the file holds
ChunkOf(j) == SubSeq(file, (j - 1) * size + 1, Min(j * size, Len(file)))

\* the rows transform_data returns for chunks 1..n, in order
RECURSIVE RowsOfChunks(_)
RowsOfChunks(n) ==
    IF n = 0 THEN <<>>
    ELSE RowsOfChunks(n - 1) \o transform_data(ChunkOf(n)).out

StoreWriteFailed == pc = "Failed" /\ error = "StoreWriteError"

\* the store write of chunk chunk_no failed: the run is over, chunks
\* 1..chunk_no-1 and no other are loaded and persisted, and the counter is
\* the sum of what they loaded
FailFast ==
    /\ ~ENABLED Next
    /\ Len(loaded) = chunk_no - 1
    /\ Len(chunk_events) = chunk_no - 1
    /\ store = RowsOfChunks(chunk_no - 1)
    /\ Len(store) = SumSeq(loaded)
    /\ processed = SumSeq(loaded)

C9_SourceUnavailable ==
    /\ (pc # "Idle" /\ ~open_ok) =>
          /\ pc = "Failed" /\ error = "SourceUnavailable"
          /\ ~ENABLED Next
          /\ chunk_no = 0 /\ next_row = 0
          /\ store = <<>> /\ loaded = <<>> /\ processed = 0
          /\ chunk_events = <<>>
          /\ complete_event = NA
    /\ (pc # "Idle" /\ open_ok /\ ~count_ok) =>
          /\ total_rows = NA
          /\ error # "SourceUnavailable"

\* a file with rows that neither the pre-count nor read_csv can open
C9_Witness ==
    /\ pc = "Failed"
    /\ error = "SourceUnavailable"
    /\ ~open_ok /\ ~count_ok
    /\ Len(file) = 2

\* a run that goes on to completion after the pre-count failed
C9_WitnessCountOnly ==
    /\ pc = "Completed"
    /\ ~count_ok
    /\ Len(store) = 2

\* C10: in every progress event the cumulative count is the sum of the rows
\* loaded by the batches so far, and the percentage is null only when the
\* total is unknown: when the pre-count succeeded it is non-null and is
\* cumulative / total * 100 (to the two decimals the event carries), also
\* when the cumulative count is 0.  (For a file without data rows the
\* quotient is undefined; the formula states the claim for the files that
\* have rows.)
IsPercentOf(h, done, total) ==
    /\ 2 * (h * total - done * 10000) <= total
    /\ 2 * (done * 10000 - h * total) <= total

C10_ProgressEvents ==
    \A n \in DOMAIN chunk_events :
        LET e == chunk_events[n]
        IN /\ e.chunk_number = n
           /\ e.total_processed = SumSeq(SubSeq(loaded, 1, n))
           /\ total_rows = NA => e.progress_percent = NA
           /\ (total_rows # NA /\ total_rows # Val(0)) =>
                 /\ e.progress_percent # NA
                 /\ IsPercentOf(e.progress_percent[2], e.total_processed,
                                total_rows[2])

====
